---- MODULE Spec2Model ----
(***************************************************************************)
(* Attention core and multi-head orchestrator of the repository, in its    *)
(* two implementations: src/main.py ("main") and                           *)
(* src/transformerx/layers/*.py ("transformerx").                          *)
(*                                                                         *)
(* A tensor is a record [kind, shape, data]: data is the row-major (C      *)
(* order) flattening that TensorFlow uses, so reshape keeps data and       *)
(* changes shape, and transpose permutes data.  A raised exception is a    *)
(* record whose kind is the exception's name.                              *)
(***************************************************************************)
EXTENDS Integers, Sequences, FiniteSets, TLC

VARIABLES layer, attention_weights, last, calls

vars == <<layer, attention_weights, last, calls>>

(* ------------------------------ bounds -------------------------------- *)
MaxBatch == 2
MaxSeq == 2

(* ------------------------------ tensors ------------------------------- *)
T(shape, data) == [kind |-> "tensor", shape |-> shape, data |-> data]

Raise(e) == [kind |-> e, shape |-> <<>>, data |-> <<>>]

None == [kind |-> "None", shape |-> <<>>, data |-> <<>>]

IsTensor(X) == X.kind = "tensor"

IsError(X) == X.kind \notin {"tensor", "None"}

RECURSIVE Prod(_)
Prod(s) == IF s = <<>> THEN 1 ELSE Head(s) * Prod(Tail(s))

\* tf.reshape: the element count must be kept, the flat data is unchanged.
reshape(X, shape) ==
    IF ~IsTensor(X) THEN X
    ELSE IF Prod(shape) = Len(X.data) THEN T(shape, X.data)
    ELSE Raise("InvalidArgumentError")

\* tf.transpose(X, perm=(0, 2, 1, 3)) and einops "b d1 d2 d3 -> b d2 d1 d3":
\* out[i, k, j, l] = in[i, j, k, l].
transpose_0213(X) ==
    IF ~IsTensor(X) THEN X
    ELSE LET a == X.shape[1]
             b == X.shape[2]
             c == X.shape[3]
             d == X.shape[4]
         IN T(<<a, c, b, d>>,
              [n \in 1..(a * b * c * d) |->
                 LET o == n - 1
                     l == o % d
                     j == (o \div d) % b
                     k == (o \div (d * b)) % c
                     i == o \div (d * b * c)
                 IN X.data[((i * b + j) * c + k) * d + l + 1]])

\* A head split that truncates the feature axis instead of raising.
rearrange_split_truncating(X, heads) ==
    IF ~IsTensor(X) THEN X
    ELSE LET dk == X.shape[3] \div heads
         IN T(<<X.shape[1], X.shape[2], heads, dk>>,
              [e \in 1..(X.shape[1] * X.shape[2] * heads * dk) |->
                 X.data[((e - 1) \div (heads * dk)) * X.shape[3] + ((e - 1) % (heads * dk)) + 1]])

\* einops rearrange(X, "b l (h dk) -> b l h dk", h=heads): the last axis is
\* decomposed into (h, dk); einops raises when heads does not divide it.
rearrange_split(X, heads) ==
    IF ~IsTensor(X) THEN X
    ELSE IF X.shape[3] % heads # 0 THEN Raise("EinopsError")
    ELSE T(<<X.shape[1], X.shape[2], heads, X.shape[3] \div heads>>, X.data)

\* einops rearrange(X, "b d1 d2 d3 -> (b d1) d2 d3")
rearrange_merge_front(X) ==
    IF ~IsTensor(X) THEN X
    ELSE T(<<X.shape[1] * X.shape[2], X.shape[3], X.shape[4]>>, X.data)

\* einops rearrange(X, "b l h d -> b l (h d)")
rearrange_merge_back(X) ==
    IF ~IsTensor(X) THEN X
    ELSE T(<<X.shape[1], X.shape[2], X.shape[3] * X.shape[4]>>, X.data)

(* --------------------------- head split/merge -------------------------- *)
\* src/main.py MultiHeadAttention.transpose_qkv
transpose_qkv(num_heads, X) ==
    LET X1 == rearrange_split(X, num_heads)
        X2 == transpose_0213(X1)
    IN rearrange_merge_front(X2)

\* A merge that reshapes without transposing the head axis back.
inverse_without_transpose(num_heads, X) ==
    IF ~IsTensor(X) THEN X
    ELSE reshape(X, <<Len(X.data) \div (num_heads * X.shape[2] * X.shape[3]),
                      X.shape[2], num_heads * X.shape[3]>>)

\* src/main.py MultiHeadAttention.inverse_transpose_qkv
main_inverse_transpose_qkv(num_heads, X) ==
    IF ~IsTensor(X) THEN X
    ELSE IF Len(X.data) % (num_heads * X.shape[2] * X.shape[3]) # 0
         THEN Raise("InvalidArgumentError")
    ELSE LET X1 == reshape(X, <<Len(X.data) \div (num_heads * X.shape[2] * X.shape[3]),
                                num_heads, X.shape[2], X.shape[3]>>)
             X2 == transpose_0213(X1)
         IN reshape(X2, <<X2.shape[1], X2.shape[2], X2.shape[3] * X2.shape[4]>>)

\* src/transformerx/layers/multihead_attention.py MultiHeadAttention.split_heads:
\* the final "(b h) l dk" rearrangement is commented out in the source.
split_heads(num_heads, X) ==
    LET X1 == rearrange_split(X, num_heads)
    IN transpose_0213(X1)

\* src/transformerx/layers/multihead_attention.py
\* MultiHeadAttention.inverse_transpose_qkv
tx_inverse_transpose_qkv(X) ==
    IF ~IsTensor(X) THEN X
    ELSE IF Len(X.shape) # 4 THEN Raise("EinopsError")
    ELSE rearrange_merge_back(transpose_0213(X))

(* ----------------------------- arithmetic ------------------------------ *)
\* tf.math.sqrt(tf.cast(d, float32)): exact on the perfect squares, which are
\* the only widths the calls of this model scale by (see ScaleExact).
Sqrt(d) == CHOOSE r \in 0..d : r * r = d

IsSquare(d) == \E r \in 0..d : r * r = d

\* Precision of the model's exponential: exp underflows to 0 below -ExpBits.
ExpBits == 16

\* "approximately": within 1/Tol of the value.
Tol == 1000

\* The exponential of softmax, as a fixed-point number with ExpBits
\* fractional bits: strictly increasing, positive, 0 once it underflows.
\* The argument is a score minus its row's maximum, so d <= 0.
Exp(d) == IF d < -ExpBits THEN 0 ELSE 2 ^ (ExpBits + d)

RECURSIVE SumTo(_, _)
\* f[1] + ... + f[n]
SumTo(f, n) == IF n = 0 THEN 0 ELSE f[n] + SumTo(f, n - 1)

RECURSIVE MaxTo(_, _)
\* max(f[1], ..., f[n]), n >= 1
MaxTo(f, n) ==
    IF n = 1 THEN f[1]
    ELSE LET m == MaxTo(f, n - 1) IN IF f[n] > m THEN f[n] ELSE m

Front(s) == SubSeq(s, 1, Len(s) - 1)

Last(s) == s[Len(s)]

(* --------------------------- tensor algebra --------------------------- *)
RECURSIVE BIdx(_, _, _)
\* Flat index, in an operand whose batch axes are ls, of the element that
\* broadcasts to flat batch index ob of the batch axes os (0-based).
BIdx(ls, os, ob) ==
    IF ls = <<>> THEN 0
    ELSE LET n == Len(os)
             own == IF ls[n] = 1 THEN 0 ELSE ob % os[n]
         IN BIdx(Front(ls), Front(os), ob \div os[n]) * ls[n] + own

RECURSIVE BShape(_, _)
\* The broadcast of two batch shapes of equal rank; <<0>> when they clash.
BShape(a, b) ==
    IF a = <<>> THEN <<>>
    ELSE LET rest == BShape(Tail(a), Tail(b))
         IN IF rest = <<0>> THEN <<0>>
            ELSE IF Head(a) = Head(b) \/ Head(b) = 1 THEN <<Head(a)>> \o rest
            ELSE IF Head(a) = 1 THEN <<Head(b)>> \o rest
            ELSE <<0>>

\* tf.matmul(A, B, transpose_b=True): A is (..., m, k), B is (..., n, k).
matmul_nt(A, B) ==
    IF ~IsTensor(A) THEN A
    ELSE IF ~IsTensor(B) THEN B
    ELSE IF Len(A.shape) # Len(B.shape) \/ Len(A.shape) < 2
         THEN Raise("InvalidArgumentError")
    ELSE LET r  == Len(A.shape)
             la == SubSeq(A.shape, 1, r - 2)
             lb == SubSeq(B.shape, 1, r - 2)
             os == BShape(la, lb)
             m  == A.shape[r - 1]
             k  == A.shape[r]
             n  == B.shape[r - 1]
         IN IF os = <<0>> \/ B.shape[r] # k THEN Raise("InvalidArgumentError")
            ELSE T(os \o <<m, n>>,
                   [e \in 1..(Prod(os) * m * n) |->
                      LET o  == e - 1
                          j  == o % n
                          i  == (o \div n) % m
                          ob == o \div (n * m)
                          pa == (BIdx(la, os, ob) * m + i) * k
                          pb == (BIdx(lb, os, ob) * n + j) * k
                      IN SumTo([c \in 1..k |-> A.data[pa + c] * B.data[pb + c]], k)])

\* tf.matmul(W, V): W is (..., m, k) of weights <<numerator, denominator>>
\* (one denominator per row), V is (..., k, n) of numbers.  The result's
\* elements are <<sum of numerator * value, denominator>>.
matmul_wv(W, V) ==
    IF ~IsTensor(W) THEN W
    ELSE IF ~IsTensor(V) THEN V
    ELSE IF Len(W.shape) # Len(V.shape) \/ Len(W.shape) < 2
         THEN Raise("InvalidArgumentError")
    ELSE LET r  == Len(W.shape)
             la == SubSeq(W.shape, 1, r - 2)
             lb == SubSeq(V.shape, 1, r - 2)
             os == BShape(la, lb)
             m  == W.shape[r - 1]
             k  == W.shape[r]
             n  == V.shape[r]
         IN IF os = <<0>> \/ V.shape[r - 1] # k THEN Raise("InvalidArgumentError")
            ELSE T(os \o <<m, n>>,
                   [e \in 1..(Prod(os) * m * n) |->
                      LET o  == e - 1
                          j  == o % n
                          i  == (o \div n) % m
                          ob == o \div (n * m)
                          pa == (BIdx(la, os, ob) * m + i) * k
                          pb == BIdx(lb, os, ob) * k * n
                      IN <<SumTo([c \in 1..k |->
                                    W.data[pa + c][1] * V.data[pb + (c - 1) * n + j + 1]], k),
                           W.data[pa + 1][2]>>])

\* A division by the width itself instead of its square root.
scale_by_width(scores, d) ==
    IF ~IsTensor(scores) THEN scores
    ELSE T(scores.shape, [e \in 1..Len(scores.data) |-> scores.data[e] \div d])

\* scores / tf.math.sqrt(tf.cast(d, float32))
scale(scores, d) ==
    IF ~IsTensor(scores) THEN scores
    ELSE T(scores.shape, [e \in 1..Len(scores.data) |-> scores.data[e] \div Sqrt(d)])

\* tf.nn.softmax(X, axis=-1): each row of the last axis is shifted by its
\* maximum, exponentiated and divided by the row's sum.  A weight is the
\* pair <<numerator, denominator>>.
softmax(X) ==
    IF ~IsTensor(X) THEN X
    ELSE LET L    == Last(X.shape)
             rows == Len(X.data) \div L
             row(r) == [c \in 1..L |-> X.data[(r - 1) * L + c]]
             num  == [r \in 1..rows |->
                        LET mx == MaxTo(row(r), L)
                        IN [c \in 1..L |-> Exp(row(r)[c] - mx)]]
             den  == [r \in 1..rows |-> SumTo(num[r], L)]
         IN T(X.shape,
              [e \in 1..Len(X.data) |->
                 <<num[((e - 1) \div L) + 1][((e - 1) % L) + 1], den[((e - 1) \div L) + 1]>>])

\* tf.repeat(X, repeats=r, axis=0): every item of axis 0 is copied r times
\* in a row, then the next item.
repeat_axis0(X, r) ==
    IF ~IsTensor(X) THEN X
    ELSE LET inner == Len(X.data) \div X.shape[1]
         IN T(<<X.shape[1] * r>> \o Tail(X.shape),
              [e \in 1..(Len(X.data) * r) |->
                 X.data[(((e - 1) \div inner) \div r) * inner + ((e - 1) % inner) + 1]])

\* A repeat that tiles the whole sequence r times (tf.tile) instead.
repeat_flat_tiled(X, r) ==
    IF ~IsTensor(X) THEN X
    ELSE T(<<Len(X.data) * r>>,
           [e \in 1..(Len(X.data) * r) |-> X.data[((e - 1) % Len(X.data)) + 1]])

\* tf.repeat(X, repeats=r) without an axis: X is flattened and every
\* element copied r times in a row.
repeat_flat(X, r) ==
    IF ~IsTensor(X) THEN X
    ELSE T(<<Len(X.data) * r>>,
           [e \in 1..(Len(X.data) * r) |-> X.data[(e - 1) \div r + 1]])

(* ------------------------------ masking ------------------------------- *)
\* The value masked_softmax writes over masked scores (value=-1e6).
Sentinel == -1000000

\* The penalty the look-ahead mask adds to a masked score.
NegInf == -1000000000

\* A sequence mask that keeps one column too many (c <= valid_len[r]).
sequence_mask_off_by_one(X, valid_len, value) ==
    IF ~IsTensor(X) THEN X
    ELSE IF ~IsTensor(valid_len) THEN valid_len
    ELSE T(X.shape,
           [e \in 1..Len(X.data) |->
              IF ((e - 1) % X.shape[2]) <= valid_len.data[((e - 1) \div X.shape[2]) + 1]
              THEN X.data[e] ELSE value])

\* src/main.py masked_softmax._sequence_mask on a 2-D X of shape
\* (rows, maxlen) and a 1-D valid_len: mask[r, c] = (c < valid_len[r]),
\* tf.where(mask, X, value) with tf.where's broadcasting of the row axis.
sequence_mask(X, valid_len, value) ==
    IF ~IsTensor(X) THEN X
    ELSE IF ~IsTensor(valid_len) THEN valid_len
    ELSE LET rows   == X.shape[1]
             maxlen == X.shape[2]
             V      == Len(valid_len.data)
         IN IF V # rows /\ V # 1 /\ rows # 1 THEN Raise("InvalidArgumentError")
            ELSE LET R == IF rows = 1 THEN V ELSE rows
                 IN T(<<R, maxlen>>,
                      [e \in 1..(R * maxlen) |->
                         LET r  == (e - 1) \div maxlen
                             c  == (e - 1) % maxlen
                             vl == valid_len.data[IF V = 1 THEN 1 ELSE r + 1]
                             x  == X.data[(IF rows = 1 THEN 0 ELSE r) * maxlen + c + 1]
                         IN IF c < vl THEN x ELSE value])

\* src/main.py masked_softmax, up to the tensor it hands to tf.nn.softmax.
masked_scores(X, valid_lens) ==
    IF ~IsTensor(X) THEN X
    ELSE IF valid_lens = None THEN X
    ELSE LET shape == X.shape
             vl    == IF Len(valid_lens.shape) = 1
                      THEN repeat_flat(valid_lens, shape[2])
                      ELSE reshape(valid_lens, <<Len(valid_lens.data)>>)
             X2    == reshape(X, <<Len(X.data) \div Last(shape), Last(shape)>>)
         IN reshape(sequence_mask(X2, vl, Sentinel), shape)

\* src/main.py masked_softmax
masked_softmax(X, valid_lens) == softmax(masked_scores(X, valid_lens))

\* transformerx.layers.masks.LookAheadMask applied to scores (..., q, kv):
\* position (i, j) of the last two axes is masked whenever j > i.
look_ahead_mask(scores) ==
    IF ~IsTensor(scores) THEN scores
    ELSE LET r  == Len(scores.shape)
             q  == scores.shape[r - 1]
             kv == scores.shape[r]
         IN T(scores.shape,
              [e \in 1..Len(scores.data) |->
                 LET j == (e - 1) % kv
                     i == ((e - 1) \div kv) % q
                 IN IF j > i THEN scores.data[e] + NegInf ELSE scores.data[e]])

\* A window branch that adds the masks row by row without the grouping
\* reshape, whatever the number of rows.
add_window_mask_unchecked(num_heads, scores, window_mask) ==
    IF ~IsTensor(scores) THEN scores
    ELSE LET per == scores.shape[2] * scores.shape[3]
         IN T(scores.shape,
              [e \in 1..Len(scores.data) |->
                 scores.data[e]
                 + window_mask.data[((((e - 1) \div per) \div num_heads)
                                       % window_mask.shape[1]) * per
                                    + ((e - 1) % per) + 1]])

\* A window branch that groups the rows as (groups, num_heads, num_windows):
\* consecutive rows take consecutive windows.
add_window_mask_head_major(num_heads, scores, window_mask) ==
    IF ~IsTensor(scores) THEN scores
    ELSE LET num_windows  == window_mask.shape[1]
             n            == scores.shape[1]
             num_queries  == scores.shape[2]
             num_kv_pairs == scores.shape[3]
             grouped == reshape(scores, <<n \div (num_windows * num_heads), num_heads,
                                          num_windows, num_queries, num_kv_pairs>>)
         IN IF ~IsTensor(grouped) THEN grouped
            ELSE IF window_mask.shape[2] # num_queries \/ window_mask.shape[3] # num_kv_pairs
                 THEN Raise("InvalidArgumentError")
            ELSE reshape(
                   T(grouped.shape,
                     [e \in 1..Len(grouped.data) |->
                        LET o == e - 1
                            j == o % num_kv_pairs
                            i == (o \div num_kv_pairs) % num_queries
                            w == (o \div (num_queries * num_kv_pairs)) % num_windows
                        IN grouped.data[e]
                           + window_mask.data[(w * num_queries + i) * num_kv_pairs + j + 1]]),
                   <<n, num_queries, num_kv_pairs>>)

\* src/main.py DotProductAttention.call, the window_mask branch: scores
\* (n, q, kv) are reshaped to (n // (num_windows * num_heads), num_windows,
\* num_heads, q, kv), window_mask (num_windows, q, kv) is added as
\* (1, num_windows, 1, q, kv), and the sum is reshaped to (n, q, kv).
\* The masks of this model have the scores' (q, kv), so the addition
\* broadcasts over the group and head axes only.
add_window_mask(num_heads, scores, window_mask) ==
    IF ~IsTensor(scores) THEN scores
    ELSE LET num_windows  == window_mask.shape[1]
             n            == scores.shape[1]
             num_queries  == scores.shape[2]
             num_kv_pairs == scores.shape[3]
             grouped == reshape(scores, <<n \div (num_windows * num_heads), num_windows,
                                          num_heads, num_queries, num_kv_pairs>>)
         IN IF ~IsTensor(grouped) THEN grouped
            ELSE IF window_mask.shape[2] # num_queries \/ window_mask.shape[3] # num_kv_pairs
                 THEN Raise("InvalidArgumentError")
            ELSE reshape(
                   T(grouped.shape,
                     [e \in 1..Len(grouped.data) |->
                        LET o == e - 1
                            j == o % num_kv_pairs
                            i == (o \div num_kv_pairs) % num_queries
                            w == (o \div (num_heads * num_queries * num_kv_pairs)) % num_windows
                        IN grouped.data[e]
                           + window_mask.data[(w * num_queries + i) * num_kv_pairs + j + 1]]),
                   <<n, num_queries, num_kv_pairs>>)

(* --------------------------- the collaborators ------------------------ *)
\* tf.keras.layers.Dense(num_hiddens, use_bias=False), an opaque linear map
\* of the last axis onto itself.  The kernels of this model are the two
\* permutation matrices of the feature axis: "id" keeps it, "rev" reverses
\* it, which is enough to tell the four projections apart.
Dense(kernel, X) ==
    IF ~IsTensor(X) THEN X
    ELSE LET d == Last(X.shape)
         IN T(X.shape,
              [e \in 1..Len(X.data) |->
                 IF kernel = "id" THEN X.data[e]
                 ELSE X.data[((e - 1) \div d) * d + (d - ((e - 1) % d))]])

\* tf.keras.layers.Dropout in inference mode: the identity.
dropout(X) == X

(* --------------------------- attention core --------------------------- *)
\* src/main.py DotProductAttention.call.  weights is what the call assigns
\* to self.attention_weights (None when it raises before the assignment);
\* output is what it returns, or the exception it raises; scaled, scores
\* and softmax_in are its locals: the scores after the division, the scores
\* before the valid-length masking and the tensor handed to tf.nn.softmax.
main_attention_call(num_heads, queries, keys, values, valid_lens, window_mask) ==
    LET d       == Last(queries.shape)
        scores0 == scale(matmul_nt(queries, keys), d)
        scores  == IF window_mask = None THEN scores0
                   ELSE add_window_mask(num_heads, scores0, window_mask)
        weights == masked_softmax(scores, valid_lens)
    IN IF ~IsTensor(weights)
       THEN [scaled |-> scores0, scores |-> scores, softmax_in |-> None,
             weights |-> None, output |-> weights]
       ELSE [scaled |-> scores0, scores |-> scores,
             softmax_in |-> masked_scores(scores, valid_lens),
             weights |-> weights, output |-> matmul_wv(dropout(weights), values)]

\* src/transformerx/layers/dot_product_attention.py DotProductAttention.call:
\* attention_mask is accepted and never read (the masked_softmax call is
\* commented out).  core is [scaled, causal_mask].
tx_attention_call(core, queries, keys, values, attention_mask) ==
    LET scores0 == matmul_nt(queries, keys)
        scores1 == IF core.scaled THEN scale(scores0, Last(queries.shape)) ELSE scores0
        scores  == IF core.causal_mask THEN look_ahead_mask(scores1) ELSE scores1
        weights == softmax(scores)
    IN IF ~IsTensor(weights)
       THEN [scaled |-> scores1, scores |-> scores, softmax_in |-> None,
             weights |-> None, output |-> weights]
       ELSE [scaled |-> scores1, scores |-> scores, softmax_in |-> scores,
             weights |-> weights, output |-> matmul_wv(dropout(weights), values)]

(* ------------------------ multi-head orchestrator --------------------- *)
\* The first exception among the three head splits, in call order.
FirstError(queries, keys, values) ==
    IF ~IsTensor(queries) THEN queries
    ELSE IF ~IsTensor(keys) THEN keys
    ELSE IF ~IsTensor(values) THEN values
    ELSE None

\* src/main.py MultiHeadAttention.call(self, queries, values, keys,
\* valid_lens, window_mask): a1, a2, a3 are the positional arguments in the
\* order the caller passes them, bound to the parameters in the order the
\* signature declares them.
main_mha_call(L, a1, a2, a3, valid_lens0, window_mask) ==
    LET queries0 == a1
        values0  == a2
        keys0    == a3
        queries  == transpose_qkv(L.num_heads, Dense(L.W_q, queries0))
        keys     == transpose_qkv(L.num_heads, Dense(L.W_k, keys0))
        values   == transpose_qkv(L.num_heads, Dense(L.W_v, values0))
        valid_lens == IF valid_lens0 = None THEN None
                      ELSE repeat_axis0(valid_lens0, L.num_heads)
        early    == FirstError(queries, keys, values)
        att      == IF early # None
                    THEN [scaled |-> None, scores |-> None, softmax_in |-> None,
                          weights |-> None, output |-> early]
                    ELSE main_attention_call(L.num_heads, queries, keys, values,
                                             valid_lens, window_mask)
        output_concat == main_inverse_transpose_qkv(L.num_heads, att.output)
    IN [queries |-> queries, keys |-> keys, values |-> values,
        valid_lens |-> valid_lens,
        scaled |-> att.scaled, scores |-> att.scores, softmax_in |-> att.softmax_in,
        weights |-> att.weights,
        output  |-> Dense(L.W_o, output_concat)]

\* src/transformerx/layers/multihead_attention.py MultiHeadAttention.call(
\* self, queries, keys, values, attention_mask)
tx_mha_call(L, a1, a2, a3, attention_mask0) ==
    LET queries0 == a1
        keys0    == a2
        values0  == a3
        queries  == split_heads(L.num_heads, Dense(L.W_q, queries0))
        keys     == split_heads(L.num_heads, Dense(L.W_k, keys0))
        values   == split_heads(L.num_heads, Dense(L.W_v, values0))
        attention_mask == IF attention_mask0 = None THEN None
                          ELSE repeat_axis0(attention_mask0, L.num_heads)
        early    == FirstError(queries, keys, values)
        att      == IF early # None
                    THEN [scaled |-> None, scores |-> None, softmax_in |-> None,
                          weights |-> None, output |-> early]
                    ELSE tx_attention_call(L.attention, queries, keys, values,
                                           attention_mask)
        output_concat == tx_inverse_transpose_qkv(att.output)
    IN [queries |-> queries, keys |-> keys, values |-> values,
        valid_lens |-> attention_mask,
        scaled |-> att.scaled, scores |-> att.scores, softmax_in |-> att.softmax_in,
        weights |-> att.weights,
        output  |-> Dense(L.W_o, output_concat)]

(* ------------------------------- inputs ------------------------------- *)
\* (d_model, num_heads) of the layers that are constructed; <<4, 3>> is a
\* width the head count does not divide.
Configs == {<<2, 2>>, <<8, 2>>, <<4, 3>>}

\* The (W_q, W_k, W_v, W_o) kernels a layer is built with.
KernelChoices == {<<"id", "rev", "id", "rev">>}

Seeds == {1, 2}

\* Input batches: queries hold even numbers, so that the scaled scores of
\* the widths in Configs are whole numbers.
Queries(b, q, d, s) == T(<<b, q, d>>, [e \in 1..(b * q * d) |-> 2 * ((e + s) % 3)])

Keys(b, kv, d, s) == T(<<b, kv, d>>, [e \in 1..(b * kv * d) |-> (e * s) % 3])

Values(b, kv, d, s) == T(<<b, kv, d>>, [e \in 1..(b * kv * d) |-> (e + 2 * s) % 4])

\* A tensor whose elements are all different.
Iota(shape, s) == T(shape, [e \in 1..Prod(shape) |-> 100 * s + e])

\* Score tensors (n, q, kv) handed to masked_softmax directly.
Scores(n, q, kv, s) == T(<<n, q, kv>>, [e \in 1..(n * q * kv) |-> ((e * s) % 5) - 2])

\* Valid lengths in 0..kv: absent, one per sequence, or one per query.
ValidLens(b, q, kv) ==
    {None}
    \cup {T(<<b>>, [n \in 1..b |-> (n + s) % (kv + 1)]) : s \in 0..kv}
    \cup {T(<<b, q>>, [e \in 1..(b * q) |-> (e + s) % (kv + 1)]) : s \in 0..kv}

\* Window masks (num_windows, q, kv) of zeros and large negative values.
WindowMasks(q, kv) ==
    {None}
    \cup {T(<<nw, q, kv>>,
            [e \in 1..(nw * q * kv) |-> IF (e % 3) = 0 THEN Sentinel ELSE 0])
          : nw \in 1..MaxBatch}

(* ------------------------------- state -------------------------------- *)
\* layer: the MultiHeadAttention object, once constructed.
\* attention_weights: self.attention.attention_weights of that object.
\* last: the operation performed last, its arguments and what it returned.
\* calls: the calls of the layer that are followed one by one (a history of
\* successive calls, or the frames of the calls in flight), in call order.
NoLayer == [impl |-> "none"]

\* self.attention_weights of a core whose __init__ never assigns it.
Unset == [kind |-> "unset", shape |-> <<>>, data |-> <<>>]

NoOp == [op |-> "none"]

Init ==
    /\ layer = NoLayer
    /\ attention_weights = Unset
    /\ last = NoOp
    /\ calls = <<>>

\* src/main.py MultiHeadAttention.__init__ (num_hiddens is d_model): the
\* fields of the new object.  Nothing is checked.
main_init(num_hiddens, num_heads, ks) ==
    [impl |-> "main", d_model |-> num_hiddens, num_heads |-> num_heads,
     W_q |-> ks[1], W_k |-> ks[2], W_v |-> ks[3], W_o |-> ks[4]]

\* A constructor whose unscaled variant forgets the causal flag.
tx_init_unscaled_not_causal(d_model, num_heads, attention, causal_mask, ks) ==
    [impl |-> "transformerx", d_model |-> d_model, num_heads |-> num_heads,
     causal_mask |-> causal_mask,
     attention |-> IF attention = "scaled_dotproduct"
                   THEN [scaled |-> TRUE, causal_mask |-> causal_mask]
                   ELSE [scaled |-> FALSE, causal_mask |-> FALSE],
     W_q |-> ks[1], W_k |-> ks[2], W_v |-> ks[3], W_o |-> ks[4]]

\* src/transformerx/layers/multihead_attention.py MultiHeadAttention.__init__:
\* the fields of the new object; attention holds the fields the core is
\* constructed with.  Nothing is checked.
tx_init(d_model, num_heads, attention, causal_mask, ks) ==
    [impl |-> "transformerx", d_model |-> d_model, num_heads |-> num_heads,
     causal_mask |-> causal_mask,
     attention |-> IF attention = "scaled_dotproduct"
                   THEN [scaled |-> TRUE, causal_mask |-> causal_mask]
                   ELSE [scaled |-> FALSE, causal_mask |-> causal_mask],
     W_q |-> ks[1], W_k |-> ks[2], W_v |-> ks[3], W_o |-> ks[4]]

\* MultiHeadAttention(...) of src/main.py
MainConstruct ==
    /\ layer = NoLayer
    /\ last = NoOp
    /\ \E cfg \in Configs, ks \in KernelChoices :
         layer' = main_init(cfg[1], cfg[2], ks)
    /\ attention_weights' = Unset
    /\ last' = [op |-> "construct"]
    /\ UNCHANGED calls

\* MultiHeadAttention(...) of transformerx; the core's __init__ sets
\* self.attention_weights = None.
TxConstruct ==
    /\ layer = NoLayer
    /\ last = NoOp
    /\ \E cfg \in Configs, ks \in KernelChoices,
          attention \in {"scaled_dotproduct", "dotproduct"}, causal_mask \in BOOLEAN :
         /\ layer' = tx_init(cfg[1], cfg[2], attention, causal_mask, ks)
         /\ last' = [op |-> "construct", attention |-> attention]
    /\ attention_weights' = None
    /\ UNCHANGED calls

\* layer.transpose_qkv(X) of src/main.py on a tensor (batch, seq, d_model).
MainSplit ==
    /\ layer.impl = "main"
    /\ last.op = "construct"
    /\ \E b \in 1..MaxBatch, l \in 1..MaxSeq, s \in Seeds :
         LET X == Iota(<<b, l, layer.d_model>>, s)
         IN last' = [op |-> "split", X |-> X, S |-> transpose_qkv(layer.num_heads, X)]
    /\ UNCHANGED <<layer, attention_weights, calls>>

\* layer.inverse_transpose_qkv(S) of src/main.py on the result of the split.
MainMerge ==
    /\ layer.impl = "main"
    /\ last.op = "split"
    /\ IsTensor(last.S)
    /\ last' = [op |-> "merge", X |-> last.X, S |-> last.S,
                M |-> main_inverse_transpose_qkv(layer.num_heads, last.S)]
    /\ UNCHANGED <<layer, attention_weights, calls>>

\* layer.split_heads(X) of transformerx on a tensor (batch, seq, d_model).
TxSplit ==
    /\ layer.impl = "transformerx"
    /\ last.op = "construct"
    /\ \E b \in 1..MaxBatch, l \in 1..MaxSeq, s \in Seeds :
         LET X == Iota(<<b, l, layer.d_model>>, s)
         IN last' = [op |-> "split", X |-> X, S |-> split_heads(layer.num_heads, X)]
    /\ UNCHANGED <<layer, attention_weights, calls>>

\* layer.inverse_transpose_qkv(S) of transformerx on the result of the split.
TxMerge ==
    /\ layer.impl = "transformerx"
    /\ last.op = "split"
    /\ IsTensor(last.S)
    /\ last' = [op |-> "merge", X |-> last.X, S |-> last.S,
                M |-> tx_inverse_transpose_qkv(last.S)]
    /\ UNCHANGED <<layer, attention_weights, calls>>

\* masked_softmax(X, valid_lens) of src/main.py, called on its own.
MaskedSoftmax ==
    /\ layer = NoLayer
    /\ last = NoOp
    /\ \E n \in 1..MaxBatch, q \in 1..MaxSeq, kv \in 1..MaxSeq, s \in Seeds :
         \E vl \in ValidLens(n, q, kv) :
           LET X == Scores(n, q, kv, s)
           IN last' = [op |-> "masked_softmax", X |-> X, valid_lens |-> vl,
                       masked |-> masked_scores(X, vl),
                       out |-> masked_softmax(X, vl)]
    /\ UNCHANGED <<layer, attention_weights, calls>>

\* The scaled scores of a call are whole numbers: the width the scores are
\* divided by is a perfect square (the queries are even).
ScaleExact(L) ==
    \/ L.d_model % L.num_heads # 0
    \/ (L.impl = "transformerx" /\ ~L.attention.scaled)
    \/ IsSquare(L.d_model \div L.num_heads)

\* The one call of a src/main.py layer, with positional (queries, keys,
\* values, valid_lens, window_mask).
MainCall ==
    /\ layer.impl = "main"
    /\ last.op = "construct"
    /\ ScaleExact(layer)
    /\ \E b \in 1..MaxBatch, q \in 1..MaxSeq, kv \in 1..MaxSeq, s \in Seeds :
         \E vl \in ValidLens(b, q, kv), wm \in WindowMasks(q, kv) :
           LET a1 == Queries(b, q, layer.d_model, s)
               a2 == Keys(b, kv, layer.d_model, s)
               a3 == Values(b, kv, layer.d_model, s)
               r  == main_mha_call(layer, a1, a2, a3, vl, wm)
           IN /\ last' = [op |-> "call", args |-> <<a1, a2, a3>>, valid_lens |-> vl,
                          window_mask |-> wm, r |-> r]
              /\ attention_weights' = IF r.weights = None THEN attention_weights
                                      ELSE r.weights
    /\ UNCHANGED <<layer, calls>>

\* The one call of a transformerx layer, with positional (queries, keys,
\* values, attention_mask).
TxCall ==
    /\ layer.impl = "transformerx"
    /\ last.op = "construct"
    /\ ScaleExact(layer)
    /\ \E b \in 1..MaxBatch, q \in 1..MaxSeq, kv \in 1..MaxSeq, s \in Seeds :
         \E vl \in ValidLens(b, q, kv) :
           LET a1 == Queries(b, q, layer.d_model, s)
               a2 == Keys(b, kv, layer.d_model, s)
               a3 == Values(b, kv, layer.d_model, s)
               r  == tx_mha_call(layer, a1, a2, a3, vl)
           IN /\ last' = [op |-> "call", args |-> <<a1, a2, a3>>, valid_lens |-> vl,
                          window_mask |-> None, r |-> r]
              /\ attention_weights' = IF r.weights = None THEN attention_weights
                                      ELSE r.weights
    /\ UNCHANGED <<layer, calls>>

Next ==
    \/ MainConstruct \/ TxConstruct
    \/ MainSplit \/ MainMerge \/ TxSplit \/ TxMerge
    \/ MaskedSoftmax
    \/ MainCall \/ TxCall

Spec == Init /\ [][Next]_vars

(* --------------------------- successive calls ------------------------- *)
\* The number of calls of one layer that are followed.
MaxCalls == 3

\* A core call whose lines 165-166 use the tensor self.attention_weights
\* held when the call began, when there is one.
tx_core_call_stale_read(core, retained, queries, keys, values, attention_mask) ==
    LET finish(c) ==
          IF c.weights = None
          THEN [attention_weights |-> retained, output |-> c.output, weights |-> None]
          ELSE LET read == IF IsTensor(retained) THEN retained ELSE c.weights
                   attention_output == matmul_wv(dropout(read), values)
               IN [attention_weights |-> c.weights, output |-> attention_output,
                   weights |-> IF IsTensor(attention_output) THEN read ELSE None]
    IN CHOOSE r \in {finish(c) : c \in {tx_attention_call(core, queries, keys, values,
                                                           attention_mask)}} : TRUE

\* A core call that assigns self.attention_weights only while it is None.
tx_core_call_keep_first(core, retained, queries, keys, values, attention_mask) ==
    LET finish(c) ==
          IF c.weights = None
          THEN [attention_weights |-> retained, output |-> c.output, weights |-> None]
          ELSE LET attention_output == matmul_wv(dropout(c.weights), values)
               IN [attention_weights |-> IF IsTensor(retained) THEN retained ELSE c.weights,
                   output |-> attention_output,
                   weights |-> IF IsTensor(attention_output) THEN c.weights ELSE None]
    IN CHOOSE r \in {finish(c) : c \in {tx_attention_call(core, queries, keys, values,
                                                           attention_mask)}} : TRUE

\* src/transformerx/layers/dot_product_attention.py DotProductAttention.call
\* as a method of the object: retained is self.attention_weights when the
\* call begins, attention_weights is what it holds when the call ends,
\* output and weights are the pair the call returns (output is the
\* exception when it raises, and weights is then None).  c holds the locals
\* of the call up to the softmax: line 158 assigns the attribute, lines 165
\* and 166 read it back.
tx_core_call(core, retained, queries, keys, values, attention_mask) ==
    LET finish(c) ==
          IF c.weights = None
          THEN [attention_weights |-> retained, output |-> c.output, weights |-> None]
          ELSE LET assigned == c.weights
                   attention_output == matmul_wv(dropout(assigned), values)
               IN [attention_weights |-> assigned, output |-> attention_output,
                   weights |-> IF IsTensor(attention_output) THEN assigned ELSE None]
    IN CHOOSE r \in {finish(c) : c \in {tx_attention_call(core, queries, keys, values,
                                                           attention_mask)}} : TRUE

\* src/main.py DotProductAttention.call as a method of the object: line 75
\* assigns self.attention_weights, line 76 reads it back and returns the
\* output alone.
main_core_call(num_heads, retained, queries, keys, values, valid_lens, window_mask) ==
    LET finish(c) ==
          IF c.weights = None
          THEN [attention_weights |-> retained, output |-> c.output, weights |-> None]
          ELSE LET assigned == c.weights
               IN [attention_weights |-> assigned,
                   output |-> matmul_wv(dropout(assigned), values), weights |-> None]
    IN CHOOSE r \in {finish(c) : c \in {main_attention_call(num_heads, queries, keys, values,
                                                             valid_lens, window_mask)}} : TRUE

\* src/transformerx/layers/multihead_attention.py MultiHeadAttention.call as
\* a method of the object: the head splits (r holds them), the core call on
\* self.attention, the merge and the output projection.
tx_layer_call(L, retained, a1, a2, a3, attention_mask0) ==
    LET inner(r) ==
          IF FirstError(r.queries, r.keys, r.values) # None
          THEN [attention_weights |-> retained, output |-> r.output, weights |-> None]
          ELSE tx_core_call(L.attention, retained, r.queries, r.keys, r.values, r.valid_lens)
        outer(c) ==
          [attention_weights |-> c.attention_weights,
           output |-> Dense(L.W_o, tx_inverse_transpose_qkv(c.output)),
           weights |-> c.weights]
    IN CHOOSE x \in {outer(c) : c \in {inner(r) : r \in {tx_mha_call(L, a1, a2, a3,
                                                                    attention_mask0)}}} : TRUE

\* src/main.py MultiHeadAttention.call as a method of the object.
main_layer_call(L, retained, a1, a2, a3, valid_lens0, window_mask) ==
    LET inner(r) ==
          IF FirstError(r.queries, r.keys, r.values) # None
          THEN [attention_weights |-> retained, output |-> r.output, weights |-> None]
          ELSE main_core_call(L.num_heads, retained, r.queries, r.keys, r.values,
                              r.valid_lens, window_mask)
        outer(c) ==
          [attention_weights |-> c.attention_weights,
           output |-> Dense(L.W_o, main_inverse_transpose_qkv(L.num_heads, c.output)),
           weights |-> None]
    IN CHOOSE x \in {outer(c) : c \in {inner(r) : r \in {main_mha_call(L, a1, a2, a3,
                                                                      valid_lens0, window_mask)}}} : TRUE

\* src/transformerx/layers/dot_product_attention.py get_attention_weights
get_attention_weights(retained) == retained

\* The layers whose successive calls are followed.
SeqConfigs == {<<2, 2>>}

\* (queries, keys, values) handed to the core itself: two well-shaped
\* triples, one whose keys have another width than the queries, one whose
\* values have another length than the keys, one whose values have another
\* batch size than the keys.
CoreInputs ==
    {<<Queries(1, 2, 1, s), Keys(1, 2, 1, s), Values(1, 2, 1, s)>> : s \in Seeds}
    \cup {<<Queries(1, 2, 1, 1), Keys(1, 2, 4, 1), Values(1, 2, 1, 1)>>,
          <<Queries(1, 2, 1, 1), Keys(1, 2, 1, 1), Values(1, 1, 1, 1)>>,
          <<Queries(2, 2, 1, 1), Keys(2, 2, 1, 1), Values(1, 2, 1, 1)>>}

\* (queries, keys, values) handed to the orchestrator.
LayerInputs(L) ==
    {<<Queries(1, 2, L.d_model, s), Keys(1, 2, L.d_model, s), Values(1, 2, L.d_model, s)>>
       : s \in Seeds}

\* The record of a finished call: its level ("core" or "layer"), its
\* arguments, self.attention_weights before and after it, and what it
\* returned.
Finished(level, args, retained, r) ==
    [level |-> level, args |-> args, before |-> retained, after |-> r.attention_weights,
     output |-> r.output, weights |-> r.weights]

CanCall ==
    /\ <<layer.d_model, layer.num_heads>> \in SeqConfigs
    /\ Len(calls) < MaxCalls

\* layer.attention(queries, keys, values) on a transformerx layer
TxCoreCall ==
    /\ layer.impl = "transformerx"
    /\ CanCall
    /\ \E args \in CoreInputs :
         \E r \in {tx_core_call(layer.attention, attention_weights,
                                 args[1], args[2], args[3], None)} :
            /\ attention_weights' = r.attention_weights
            /\ calls' = Append(calls, Finished("core", args, attention_weights, r))
    /\ last' = [op |-> "core_call"]
    /\ UNCHANGED layer

\* layer.attention(queries, keys, values) on a src/main.py layer
MainCoreCall ==
    /\ layer.impl = "main"
    /\ CanCall
    /\ \E args \in CoreInputs :
         \E r \in {main_core_call(layer.num_heads, attention_weights,
                                   args[1], args[2], args[3], None, None)} :
            /\ attention_weights' = r.attention_weights
            /\ calls' = Append(calls, Finished("core", args, attention_weights, r))
    /\ last' = [op |-> "core_call"]
    /\ UNCHANGED layer

\* layer(queries, keys, values) on a transformerx layer
TxLayerCall ==
    /\ layer.impl = "transformerx"
    /\ CanCall
    /\ \E args \in LayerInputs(layer) :
         \E r \in {tx_layer_call(layer, attention_weights, args[1], args[2], args[3], None)} :
            /\ attention_weights' = r.attention_weights
            /\ calls' = Append(calls, Finished("layer", args, attention_weights, r))
    /\ last' = [op |-> "layer_call"]
    /\ UNCHANGED layer

\* layer(queries, keys, values, None) on a src/main.py layer
MainLayerCall ==
    /\ layer.impl = "main"
    /\ CanCall
    /\ \E args \in LayerInputs(layer) :
         \E r \in {main_layer_call(layer, attention_weights, args[1], args[2], args[3],
                                    None, None)} :
            /\ attention_weights' = r.attention_weights
            /\ calls' = Append(calls, Finished("layer", args, attention_weights, r))
    /\ last' = [op |-> "layer_call"]
    /\ UNCHANGED layer

\* layer.attention.get_attention_weights() on a transformerx layer
GetAttentionWeights ==
    /\ layer.impl = "transformerx"
    /\ <<layer.d_model, layer.num_heads>> \in SeqConfigs
    /\ last.op # "get"
    /\ last' = [op |-> "get", got |-> get_attention_weights(attention_weights)]
    /\ UNCHANGED <<layer, attention_weights, calls>>

SeqNext ==
    \/ MainConstruct \/ TxConstruct
    \/ TxCoreCall \/ MainCoreCall
    \/ TxLayerCall \/ MainLayerCall
    \/ GetAttentionWeights

\* Calls of one layer made one after the other: each call returns before
\* the next begins.
SeqSpec == Init /\ [][SeqNext]_vars

(* --------------------------- concurrent calls ------------------------- *)
\* The number of callers that call the core of one layer at the same time.
MaxCallers == 2

\* (queries, keys, values) of a caller: independent well-shaped batches.
CallerInputs ==
    {<<Queries(1, 2, 1, s), Keys(1, 2, 1, s), Values(1, 2, 1, s)>> : s \in Seeds}

\* The frame of caller t is calls[t]: its arguments, the statement it is
\* about to execute (pc) and, once it has them, its locals attention_output
\* (output) and the weights it returns.
Frame(args, pc, output, weights) ==
    [level |-> "core", args |-> args, pc |-> pc, output |-> output, weights |-> weights]

\* A caller enters layer.attention(queries, keys, values).
Begin ==
    /\ layer # NoLayer
    /\ <<layer.d_model, layer.num_heads>> \in SeqConfigs
    /\ Len(calls) < MaxCallers
    /\ \E args \in CallerInputs :
         calls' = Append(calls, Frame(args, "assign", None, None))
    /\ UNCHANGED <<layer, attention_weights, last>>

\* transformerx, lines 133-158: the caller computes the scores and the
\* softmax from its arguments and assigns self.attention_weights.
TxAssign ==
    /\ layer.impl = "transformerx"
    /\ \E t \in DOMAIN calls :
         /\ calls[t].pc = "assign"
         /\ \E c \in {tx_attention_call(layer.attention, calls[t].args[1], calls[t].args[2],
                                        calls[t].args[3], None)} :
              IF c.weights = None
              THEN /\ calls' = [calls EXCEPT ![t] = Frame(calls[t].args, "done", c.output, None)]
                   /\ UNCHANGED attention_weights
              ELSE /\ attention_weights' = c.weights
                   /\ calls' = [calls EXCEPT ![t].pc = "output"]
    /\ UNCHANGED <<layer, last>>

\* transformerx, line 165: the caller reads self.attention_weights and
\* multiplies it with its values.
TxOutput ==
    /\ layer.impl = "transformerx"
    /\ \E t \in DOMAIN calls :
         /\ calls[t].pc = "output"
         /\ \E out \in {matmul_wv(dropout(attention_weights), calls[t].args[3])} :
              calls' = [calls EXCEPT ![t] =
                          Frame(calls[t].args, IF IsTensor(out) THEN "return" ELSE "done",
                                out, None)]
    /\ UNCHANGED <<layer, attention_weights, last>>

\* transformerx, line 166: the caller reads self.attention_weights again
\* and returns it with its output.
TxReturn ==
    /\ layer.impl = "transformerx"
    /\ \E t \in DOMAIN calls :
         /\ calls[t].pc = "return"
         /\ calls' = [calls EXCEPT ![t] =
                        Frame(calls[t].args, "done", calls[t].output, attention_weights)]
    /\ UNCHANGED <<layer, attention_weights, last>>

\* src/main.py, lines 55-75: the caller computes the scores and the masked
\* softmax from its arguments and assigns self.attention_weights.
MainAssign ==
    /\ layer.impl = "main"
    /\ \E t \in DOMAIN calls :
         /\ calls[t].pc = "assign"
         /\ \E c \in {main_attention_call(layer.num_heads, calls[t].args[1], calls[t].args[2],
                                          calls[t].args[3], None, None)} :
              IF c.weights = None
              THEN /\ calls' = [calls EXCEPT ![t] = Frame(calls[t].args, "done", c.output, None)]
                   /\ UNCHANGED attention_weights
              ELSE /\ attention_weights' = c.weights
                   /\ calls' = [calls EXCEPT ![t].pc = "output"]
    /\ UNCHANGED <<layer, last>>

\* src/main.py, line 76: the caller reads self.attention_weights,
\* multiplies it with its values and returns the product.
MainReturn ==
    /\ layer.impl = "main"
    /\ \E t \in DOMAIN calls :
         /\ calls[t].pc = "output"
         /\ \E out \in {matmul_wv(dropout(attention_weights), calls[t].args[3])} :
              calls' = [calls EXCEPT ![t] = Frame(calls[t].args, "done", out, None)]
    /\ UNCHANGED <<layer, attention_weights, last>>

ConcNext ==
    \/ MainConstruct \/ TxConstruct
    \/ Begin
    \/ TxAssign \/ TxOutput \/ TxReturn
    \/ MainAssign \/ MainReturn

\* Calls of one layer's core by several callers at once: the statements of
\* the callers interleave in any order.
ConcSpec == Init /\ [][ConcNext]_vars

(* ======================= properties of the code ======================= *)
\* Element [n, i, j] (0-based) of a tensor whose last two axes are (q, kv),
\* n counting the rows of all the leading axes.
At(X, n, i, j) ==
    X.data[(n * X.shape[Len(X.shape) - 1] + i) * Last(X.shape) + j + 1]

\* A weight <<numerator, denominator>> is approximately 0.
ApproxZero(w) == w[1] * Tol <= w[2]

\* numerator / denominator is approximately 1.
ApproxOne(num, den) == den > 0 /\ num <= den /\ (den - num) * Tol <= den

Divisible(L) == L.d_model % L.num_heads = 0

\* The head split of the layer's implementation.
SplitOf(L, X) ==
    IF L.impl = "main" THEN transpose_qkv(L.num_heads, X) ELSE split_heads(L.num_heads, X)

\* C1: merging the heads of a split tensor X of shape (batch, seq, d_model)
\* gives back a tensor of that shape equal to X element for element.
C1_RoundTrip ==
    last.op = "merge" => last.M = last.X

C1_Witness ==
    /\ last.op = "merge"
    /\ IsTensor(last.M)
    /\ layer.num_heads = 2 /\ layer.d_model = 8
    /\ last.X.shape = <<2, 2, 8>>

\* C2: the head split of X (batch, seq, d_model) is a rank-3 tensor S of
\* shape (batch * num_heads, seq, d_model / num_heads) with
\* S[b * num_heads + h, l, k] = X[b, l, h * (d_model / num_heads) + k].
C2_SplitLayout ==
    (last.op = "split" /\ IsTensor(last.S)) =>
        LET B  == last.X.shape[1]
            Lq == last.X.shape[2]
            D  == last.X.shape[3]
            H  == layer.num_heads
            dk == D \div H
        IN /\ last.S.shape = <<B * H, Lq, dk>>
           /\ \A b \in 0..(B - 1), h \in 0..(H - 1), l \in 0..(Lq - 1), k \in 0..(dk - 1) :
                last.S.data[((b * H + h) * Lq + l) * dk + k + 1]
                  = last.X.data[(b * Lq + l) * D + h * dk + k + 1]

\* C3: in a call with positional (queries, keys, values) the second
\* argument goes through the key projection and is the keys of the core,
\* the third goes through the value projection and is the values of the core.
C3_KeyValueRoles ==
    (last.op = "call" /\ Divisible(layer)) =>
        /\ last.r.keys = SplitOf(layer, Dense(layer.W_k, last.args[2]))
        /\ last.r.values = SplitOf(layer, Dense(layer.W_v, last.args[3]))

\* C9 as stated: no layer whose d_model is not divisible by num_heads
\* ever exists.
C9_NoIndivisibleLayer ==
    layer # NoLayer => Divisible(layer)

\* C9 as amended: on a layer whose d_model is not divisible by num_heads
\* every head split and every call raises (einops rejects the split of the
\* feature axis); nothing is returned and no weights are retained.
C9_IndivisibleRaises ==
    /\ (last.op = "split" /\ ~Divisible(layer)) => last.S.kind = "EinopsError"
    /\ (last.op = "call" /\ ~Divisible(layer)) =>
          /\ last.r.output.kind = "EinopsError"
          /\ last.r.weights = None
          /\ attention_weights \in {None, Unset}

C9_Witness ==
    /\ last.op = "call"
    /\ ~Divisible(layer)
    /\ last.r.output.kind = "EinopsError"

(* ---- the call just made: its sizes and each row's valid length -------- *)
CallB == last.args[1].shape[1]

CallQ == last.args[1].shape[2]

CallKV == last.args[2].shape[2]

CallH == layer.num_heads

\* The valid length the caller gave for query i of sequence b (0-based):
\* valid_lens[b] when valid_lens is 1-D, valid_lens[b, i] when it is 2-D.
RowLen(valid_lens, b, i, q) ==
    IF Len(valid_lens.shape) = 1 THEN valid_lens.data[b + 1]
    ELSE valid_lens.data[b * q + i + 1]

\* The sum of the numerators of the weights [n, i, 0..upto-1].
NumSum(W, n, i, upto) == SumTo([j \in 1..upto |-> At(W, n, i, j - 1)[1]], upto)

\* C4: in a call with valid lengths, for every sequence b with valid length
\* L, every head h and every query row i, the weights at columns >= L are
\* approximately 0 and those at columns < L sum to approximately 1.  (Stated
\* for the calls without a window mask and the rows with L >= 1: a fully
\* masked row is the exception the specification states separately.)
C4_ValidLengthWeights ==
    (last.op = "call" /\ last.valid_lens # None /\ last.window_mask = None
       /\ IsTensor(last.r.weights)) =>
        \A b \in 0..(CallB - 1), h \in 0..(CallH - 1), i \in 0..(CallQ - 1) :
            LET L == RowLen(last.valid_lens, b, i, CallQ)
                n == b * CallH + h
                W == last.r.weights
            IN L >= 1 =>
                 /\ \A j \in L..(CallKV - 1) : ApproxZero(At(W, n, i, j))
                 /\ ApproxOne(NumSum(W, n, i, L), At(W, n, i, 0)[2])

\* C5: masked_softmax with valid lengths replaces, in every row, exactly
\* the scores at columns >= the row's valid length by -1e6 and keeps the
\* others, before the softmax; the result has the shape of the input.
C5_MaskedSoftmax ==
    (last.op = "masked_softmax" /\ last.valid_lens # None) =>
        /\ IsTensor(last.out)
        /\ last.out.shape = last.X.shape
        /\ last.masked.shape = last.X.shape
        /\ \A n \in 0..(last.X.shape[1] - 1), i \in 0..(last.X.shape[2] - 1),
              j \in 0..(last.X.shape[3] - 1) :
                At(last.masked, n, i, j)
                  = IF j >= RowLen(last.valid_lens, n, i, last.X.shape[2])
                    THEN Sentinel ELSE At(last.X, n, i, j)

C5_Witness ==
    /\ last.op = "masked_softmax"
    /\ last.valid_lens # None
    /\ last.X.shape = <<2, 2, 2>>
    /\ At(last.masked, 0, 0, 1) = Sentinel
    /\ At(last.masked, 1, 0, 1) # Sentinel

\* The number of columns of row (n, i) that were not overwritten.
Unmasked(M, n, i) ==
    Cardinality({j \in 0..(Last(M.shape) - 1) : At(M, n, i, j) # Sentinel})

\* C6: with 1-D valid_lens of length N every query row (n, i) is masked
\* with valid_lens[n]; with 2-D valid_lens (N, seq_q) row (n, i) is masked
\* with valid_lens[n, i]: the row keeps that many columns.
C6_RowLengths ==
    (last.op = "masked_softmax" /\ last.valid_lens # None /\ IsTensor(last.masked)) =>
        \A n \in 0..(last.X.shape[1] - 1), i \in 0..(last.X.shape[2] - 1) :
            Unmasked(last.masked, n, i)
              = IF Len(last.valid_lens.shape) = 1
                THEN last.valid_lens.data[n + 1]
                ELSE last.valid_lens.data[n * last.X.shape[2] + i + 1]

C6_Witness ==
    /\ last.op = "masked_softmax"
    /\ IsTensor(last.masked)
    /\ last.X.shape = <<2, 2, 2>>
    /\ last.valid_lens.shape = <<2>>
    /\ last.valid_lens.data[1] # last.valid_lens.data[2]

\* C7: the orchestrator replicates the valid lengths num_heads times in the
\* order of the head split, so that the row of head h of sequence b (row
\* b * num_heads + h) is masked with the valid length of sequence b.
C7_HeadsMaskedAlike ==
    (last.op = "call" /\ last.valid_lens # None /\ IsTensor(last.r.weights)) =>
        \A b \in 0..(CallB - 1), h \in 0..(CallH - 1), i \in 0..(CallQ - 1) :
            LET n == b * CallH + h
            IN /\ RowLen(last.r.valid_lens, n, i, CallQ)
                    = RowLen(last.valid_lens, b, i, CallQ)
               /\ \A j \in 0..(CallKV - 1) :
                    At(last.r.softmax_in, n, i, j)
                      = IF j >= RowLen(last.valid_lens, b, i, CallQ)
                        THEN Sentinel ELSE At(last.r.scores, n, i, j)

\* C8: with the causal flag every weight at (i, j), j > i, is approximately
\* 0 and every row of weights sums to 1; the orchestrator's flag is the
\* core's flag, for the scaled and the unscaled variant.
C8_Causal ==
    /\ layer.impl = "transformerx" => layer.attention.causal_mask = layer.causal_mask
    /\ (last.op = "call" /\ layer.impl = "transformerx" /\ layer.causal_mask
          /\ IsTensor(last.r.weights)) =>
         \A n \in 0..(CallB * CallH - 1), i \in 0..(CallQ - 1) :
            /\ \A j \in (i + 1)..(CallKV - 1) : ApproxZero(At(last.r.weights, n, i, j))
            /\ ApproxOne(NumSum(last.r.weights, n, i, CallKV), At(last.r.weights, n, i, 0)[2])

C8_Witness ==
    /\ last.op = "call"
    /\ layer.impl = "transformerx" /\ layer.causal_mask /\ ~layer.attention.scaled
    /\ IsTensor(last.r.weights)
    /\ last.r.weights.shape = <<2, 2, 2, 2>>
    /\ At(last.r.weights, 3, 0, 1)[1] = 0
    /\ At(last.r.weights, 3, 1, 1)[1] > 0

\* C10: a call with a window mask (num_windows, q, kv) whose number of
\* score rows n = batch * num_heads is not divisible by num_windows *
\* num_heads raises and returns nothing; no weights are computed.
C10_WindowMismatchRejected ==
    (last.op = "call" /\ layer.impl = "main" /\ Divisible(layer)
       /\ last.window_mask # None
       /\ (CallB * CallH) % (last.window_mask.shape[1] * CallH) # 0) =>
        /\ last.r.output.kind = "InvalidArgumentError"
        /\ last.r.weights = None
        /\ attention_weights = Unset

C10_Witness ==
    /\ last.op = "call"
    /\ layer.impl = "main" /\ Divisible(layer)
    /\ last.window_mask # None
    /\ last.window_mask.shape[1] = 2 /\ CallB = 1
    /\ last.r.output.kind = "InvalidArgumentError"

\* The valid length of row (n, i) of a masked_softmax input: the row's
\* width when no valid lengths are given.
SoftmaxRowLen(X, valid_lens, n, i) ==
    IF valid_lens = None THEN Last(X.shape)
    ELSE RowLen(valid_lens, n, i, X.shape[2])

\* C13: every row of the weights masked_softmax returns sums to
\* approximately 1, except the fully masked rows (valid length 0, every
\* column overwritten by -1e6), whose weights sum to a value close to 0 but
\* not exactly 0.
C13_RowSums ==
    (last.op = "masked_softmax" /\ IsTensor(last.out)) =>
        \A n \in 0..(last.X.shape[1] - 1), i \in 0..(last.X.shape[2] - 1) :
            LET sum == NumSum(last.out, n, i, Last(last.X.shape))
                den == At(last.out, n, i, 0)[2]
            IN IF SoftmaxRowLen(last.X, last.valid_lens, n, i) = 0
               THEN sum > 0 /\ sum * Tol <= den
               ELSE ApproxOne(sum, den)

\* The product of query row i and key row j of head-row n (0-based), as a
\* sum over the d columns of both.
QK(queries, keys, n, i, j, d) ==
    SumTo([c \in 1..d |-> At(queries, n, i, c - 1) * At(keys, n, j, c - 1)], d)

\* Scaling is enabled on the layer: always in src/main.py, by the core's
\* flag in transformerx.
ScalingEnabled(L) == L.impl = "main" \/ L.attention.scaled

\* C14: the scores a call feeds to masking and softmax are the query-key
\* products divided by sqrt(d_k) when scaling is enabled and the products
\* themselves when it is disabled (attention = "dotproduct"); d_k is the
\* width of the queries the core receives, d_model / num_heads.
C14_Scaling ==
    /\ (last.op = "construct" /\ layer.impl = "transformerx") =>
          (layer.attention.scaled <=> last.attention # "dotproduct")
    /\ (last.op = "call" /\ IsTensor(last.r.scaled)) =>
          LET d_k == layer.d_model \div layer.num_heads
          IN /\ Last(last.r.queries.shape) = d_k
             /\ Last(last.r.scaled.shape) = CallKV
             /\ Len(last.r.scaled.data) = CallB * CallH * CallQ * CallKV
             /\ \A n \in 0..(CallB * CallH - 1), i \in 0..(CallQ - 1), j \in 0..(CallKV - 1) :
                  LET raw == QK(last.r.queries, last.r.keys, n, i, j, d_k)
                      fed == At(last.r.scaled, n, i, j)
                  IN IF ScalingEnabled(layer) THEN fed * Sqrt(d_k) = raw ELSE fed = raw
             /\ (last.valid_lens = None /\ last.window_mask = None
                   /\ ~(layer.impl = "transformerx" /\ layer.causal_mask)) =>
                  last.r.softmax_in = last.r.scaled

C14_Witness ==
    /\ last.op = "call"
    /\ layer.impl = "transformerx" /\ layer.attention.scaled
    /\ layer.d_model = 8 /\ layer.num_heads = 2
    /\ IsTensor(last.r.scaled)
    /\ last.r.scaled.shape = <<2, 2, 2, 2>>
    /\ At(last.r.scaled, 0, 0, 0) # 0
    /\ At(last.r.scaled, 0, 0, 0) * 2 = QK(last.r.queries, last.r.keys, 0, 0, 0, 4)

\* C17: in a call with a window mask (num_windows, seq_q, seq_kv) whose
\* number of score rows n is divisible by num_windows * num_heads, score
\* row n' has window_mask[(n' // num_heads) % num_windows] added to it, so
\* the num_heads rows of sequence b all get window b % num_windows, and the
\* scores keep the shape (n, seq_q, seq_kv) with every row in its place.
C17_WindowRows ==
    (last.op = "call" /\ layer.impl = "main" /\ Divisible(layer)
       /\ last.window_mask # None
       /\ (CallB * CallH) % (last.window_mask.shape[1] * CallH) = 0) =>
        LET num_windows == last.window_mask.shape[1]
        IN /\ IsTensor(last.r.scores)
           /\ last.r.scores.shape = <<CallB * CallH, CallQ, CallKV>>
           /\ \A b \in 0..(CallB - 1), h \in 0..(CallH - 1),
                 i \in 0..(CallQ - 1), j \in 0..(CallKV - 1) :
                LET row == b * CallH + h
                IN /\ (row \div CallH) % num_windows = b % num_windows
                   /\ At(last.r.scores, row, i, j)
                        = At(last.r.scaled, row, i, j)
                          + At(last.window_mask, b % num_windows, i, j)

C17_Witness ==
    /\ last.op = "call"
    /\ layer.impl = "main" /\ layer.num_heads = 2
    /\ last.window_mask # None
    /\ last.window_mask.shape = <<2, 1, 2>>
    /\ CallB = 2
    /\ IsTensor(last.r.scores)
    /\ At(last.r.scores, 1, 0, 0) = At(last.r.scaled, 1, 0, 0)
    /\ At(last.r.scores, 2, 0, 0) = At(last.r.scaled, 2, 0, 0) + Sentinel

(* ---- successive calls of one layer (SeqSpec) -------------------------- *)
\* C11: two calls of the core, or of the orchestrator, of one layer with
\* identical inputs return identical output and identical weights (and,
\* when they complete, leave identical weights in the core), whatever calls
\* were made in between and whatever tensor the core retained when they
\* began.
C11_Deterministic ==
    \A i, j \in DOMAIN calls :
        (calls[i].level = calls[j].level /\ calls[i].args = calls[j].args) =>
            /\ calls[i].output = calls[j].output
            /\ calls[i].weights = calls[j].weights
            /\ IsTensor(calls[i].output) => calls[i].after = calls[j].after

C11_Witness ==
    /\ layer.impl = "transformerx"
    /\ Len(calls) = 3
    /\ calls[1].level = "layer" /\ calls[2].level = "layer" /\ calls[3].level = "layer"
    /\ calls[1].args = calls[3].args
    /\ calls[2].args # calls[1].args
    /\ IsTensor(calls[1].output) /\ IsTensor(calls[2].output)
    /\ calls[2].weights # calls[1].weights
    /\ calls[3].before = calls[2].weights
    /\ calls[3].output = calls[1].output

\* C15: the tensor the transformerx core retains is None before the first
\* call; whenever the most recent call completed it is the weight tensor
\* that call returned; get_attention_weights() returns the retained tensor
\* and leaves it as it is.
C15_Retained ==
    layer.impl = "transformerx" =>
        /\ calls = <<>> => attention_weights = None
        /\ (calls # <<>> /\ IsTensor(calls[Len(calls)].output)) =>
              /\ IsTensor(calls[Len(calls)].weights)
              /\ attention_weights = calls[Len(calls)].weights
        /\ last.op = "get" => last.got = attention_weights

C15_Witness ==
    /\ layer.impl = "transformerx"
    /\ Len(calls) = 2
    /\ IsTensor(calls[1].output) /\ IsTensor(calls[2].output)
    /\ calls[2].weights # calls[1].weights
    /\ last.op = "get"
    /\ last.got = calls[2].weights

\* The shapes of (queries, keys, values) handed to the core break a
\* precondition: the widths of queries and keys differ, or the batch sizes
\* or the lengths of keys and values differ.
ShapeMismatch(args) ==
    \/ Last(args[1].shape) # Last(args[2].shape)
    \/ args[2].shape[1] # args[3].shape[1]
    \/ args[2].shape[2] # args[3].shape[2]

\* C16: a core call whose queries, keys and values break a shape
\* precondition raises and returns nothing, and the core retains after the
\* call the tensor it retained before it.
C16_RejectedBeforeComputation ==
    \A i \in DOMAIN calls :
        (calls[i].level = "core" /\ ShapeMismatch(calls[i].args)) =>
            /\ IsError(calls[i].output)
            /\ calls[i].after = calls[i].before

(* ---- concurrent calls of one layer's core (ConcSpec) ------------------ *)
\* What a call of the layer's core with these arguments computes when it
\* runs alone.
Alone(L, args) ==
    IF L.impl = "main"
    THEN main_attention_call(L.num_heads, args[1], args[2], args[3], None, None)
    ELSE tx_attention_call(L.attention, args[1], args[2], args[3], None)

\* C12: of the calls that run concurrently on one layer, each returns the
\* output, and the weights, that its own inputs alone determine, however
\* the calls interleave: nothing it returns is computed from the weights
\* another call wrote.
C12_OwnInputsAlone ==
    \A t \in DOMAIN calls :
        calls[t].pc = "done" =>
            /\ calls[t].output = Alone(layer, calls[t].args).output
            /\ layer.impl = "transformerx" =>
                 calls[t].weights = Alone(layer, calls[t].args).weights

====
